---- MODULE Spec2Model ----
(***************************************************************************)
(* Model of the MTP device/content tree abstraction of nx_mtp_sender:      *)
(* mtp/win_access.py (WPD/COM backend) and mtp/linux_access.py (gvfs mount *)
(* backend and raw libmtp backend).                                        *)
(*                                                                         *)
(* A path string is modelled as the sequence of its segments (the result   *)
(* of normalising the separators and splitting); segments are non-empty.   *)
(* The device is one attached unit named DevName holding a tree of         *)
(* objects identified by object ids, as the WPD and libmtp backends        *)
(* address them; the gvfs mount addresses the same tree by path.           *)
(***************************************************************************)
EXTENDS Integers, Sequences, FiniteSets, TLC

\* ------------------------------------------------------------------------
\* Program constants
WPD_CONTENT_TYPE_UNDEFINED == -1
WPD_CONTENT_TYPE_STORAGE == 0
WPD_CONTENT_TYPE_DIRECTORY == 1
WPD_CONTENT_TYPE_FILE == 2
WPD_CONTENT_TYPE_DEVICE == 3
\* parent id libmtp uses for the top level of a storage (0xFFFFFFFF as int32)
LIBMTP_FILES_AND_FOLDERS_ROOT == -1

\* ------------------------------------------------------------------------
\* Bounds of the model
MaxId == 4          \* object ids 1..MaxId; 1 and 2 are the two storages
MaxPathLen == 4     \* longest path handed to an operation: D/S/x/y
MaxFaults == 1      \* backend faults injected into one walk
MaxVisits == 3      \* largest N for "callback returns false on the N-th child"
MaxWalkObjs == 3    \* objects below the storage in a walked tree
MaxRelLen == 2      \* longest path below a node handed to get_path
MaxDevices == 2     \* devices attached when the devices are enumerated
MaxFileLen == 3     \* bytes in a local file that is uploaded
MaxBlock == 2       \* largest transfer size the device advises
MaxEnums == 2       \* calls of get_portable_devices in one session

\* ------------------------------------------------------------------------
\* Names
Backends == {"win", "gvfs", "libmtp"}
DevName == "D"              \* PortableDevice.devicename of the attached device
OtherDev == "X"             \* a device name that is not attached
StorNames == {"S1", "S2"}   \* storages of the device (object ids 1 and 2)
MissingStor == "S9"         \* a storage name the device does not have
Names == {"a", "b"}         \* names of directories and files
FileSize == 10              \* size in bytes of an uploaded file
DEVICE == 0                 \* object id of the device root ("DEVICE")
NoObj == DEVICE - 2         \* lookup result: no such object

\* Character order of the names, as Python compares the strings.
NameOrder == <<"D", "S1", "S2", "S9", "X", "a", "b">>
NameRank(n) == CHOOSE i \in 1..Len(NameOrder) : NameOrder[i] = n

\* a < b for two path strings (segment-wise lexicographic order)
RECURSIVE PathLess(_, _)
PathLess(p, q) ==
    IF p = <<>> THEN q # <<>>
    ELSE IF q = <<>> THEN FALSE
    ELSE IF Head(p) = Head(q) THEN PathLess(Tail(p), Tail(q))
    ELSE NameRank(Head(p)) < NameRank(Head(q))

\* paths the callers hand to the operations
RECURSIVE SeqsOver(_, _)
SeqsOver(S, n) ==
    IF n = 0 THEN {<<>>}
    ELSE LET shorter == SeqsOver(S, n - 1)
         IN  shorter \cup {Append(s, x) : s \in {t \in shorter : Len(t) = n - 1}, x \in S}

\* the paths asked for: every path of up to two segments below storage S1,
\* deeper ones repeating their second segment, and paths that do not resolve
ReqTails == {q \in SeqsOver(Names, MaxPathLen - 2) : \A k \in 3..Len(q) : q[k] = q[2]}

ReqPaths ==
    {<<DevName, "S1">> \o r : r \in ReqTails}
    \cup {<<DevName, "S2">>, <<DevName, "S2", "a">>,
          <<DevName, MissingStor, "a">>, <<OtherDev, "S1", "a">>}

\* ------------------------------------------------------------------------
\* The device tree: o maps the ids of the live objects to
\* [parent, name, kind, size]; parent DEVICE marks a storage.
InitObjs ==
    (1 :> [parent |-> DEVICE, name |-> "S1", kind |-> "storage", size |-> 0])
    @@ (2 :> [parent |-> DEVICE, name |-> "S2", kind |-> "storage", size |-> 0])

Children(o, pid) == {i \in DOMAIN o : o[i].parent = pid}
ChildNamed(o, pid, n) == {i \in Children(o, pid) : o[i].name = n}
FirstOf(S) == CHOOSE i \in S : \A j \in S : i <= j

RECURSIVE PathOf(_, _)
PathOf(o, i) ==
    IF i = DEVICE THEN <<DevName>>
    ELSE Append(PathOf(o, o[i].parent), o[i].name)

RECURSIVE Descendants(_, _)
Descendants(o, i) ==
    LET ch == Children(o, i)
    IN  ch \cup UNION {Descendants(o, c) : c \in ch}

\* object below pid reached by the segments segs, or NoObj.  An empty
\* segment stands for a doubled or trailing separator; the file system
\* accepts it after a directory.
RECURSIVE Lookup(_, _, _)
Lookup(o, pid, segs) ==
    IF segs = <<>> THEN pid
    ELSE IF Head(segs) = ""
    THEN IF pid = DEVICE \/ o[pid].kind \in {"storage", "folder"}
         THEN Lookup(o, pid, Tail(segs)) ELSE NoObj
    ELSE LET m == ChildNamed(o, pid, Head(segs))
         IN  IF m = {} THEN NoObj
             ELSE CHOOSE i \in {Lookup(o, first, Tail(segs)) : first \in {FirstOf(m)}} : TRUE

\* the mounted file system below _gvfs_search_path
MountLookup(o, p) == IF p # <<>> /\ Head(p) = DevName THEN Lookup(o, DEVICE, Tail(p)) ELSE NoObj
os_path_exists(o, p) == MountLookup(o, p) # NoObj
os_path_isdir(o, p) ==
    LET i == MountLookup(o, p)
    IN  i # NoObj /\ (i = DEVICE \/ o[i].kind \in {"storage", "folder"})

\* ------------------------------------------------------------------------
\* Content nodes (PortableDeviceContent values)
NoNode == [full_filename |-> <<>>, name |-> "", content_type |-> WPD_CONTENT_TYPE_UNDEFINED,
           size |-> -1, storage_id |-> 0, entry_id |-> 0]

basename(p) == IF p = <<>> THEN "" ELSE p[Len(p)]

\* linux_access.PortableDeviceContent.__init__ on the gvfs mount: the size
\* comes from os.path.getsize; statOk is FALSE when that raises OSError.
GvfsPDC(o, dirpath, storage_id, entry_id, typ, statOk) ==
    [full_filename |-> dirpath, name |-> basename(dirpath),
     content_type |-> IF typ = WPD_CONTENT_TYPE_FILE /\ ~statOk
                      THEN WPD_CONTENT_TYPE_STORAGE ELSE typ,
     size |-> IF typ = WPD_CONTENT_TYPE_FILE /\ statOk /\ os_path_exists(o, dirpath)
              THEN o[MountLookup(o, dirpath)].size ELSE -1,
     storage_id |-> storage_id, entry_id |-> entry_id]

\* linux_access.PortableDeviceContent.__init__ on libmtp: size is the argument
LibmtpPDC(dirpath, storage_id, entry_id, typ, size) ==
    [full_filename |-> dirpath, name |-> basename(dirpath), content_type |-> typ,
     size |-> IF typ = WPD_CONTENT_TYPE_FILE THEN size ELSE -1,
     storage_id |-> storage_id, entry_id |-> entry_id]

\* win_access.PortableDeviceContent.__init__/_get_properties: everything is
\* read from the properties of the object; entry_id holds _object_id.
WinPDC(o, oid, parent_path) ==
    [full_filename |-> Append(parent_path, o[oid].name), name |-> o[oid].name,
     content_type |-> IF o[oid].kind = "storage" THEN WPD_CONTENT_TYPE_STORAGE
                      ELSE IF o[oid].kind = "folder" THEN WPD_CONTENT_TYPE_DIRECTORY
                      ELSE WPD_CONTENT_TYPE_FILE,
     size |-> IF o[oid].kind = "storage" THEN -1 ELSE o[oid].size,
     storage_id |-> 0, entry_id |-> oid]

\* Results of the operations: a node, absent (None) or a raised error
Ok(n) == [st |-> "ok", node |-> n, err |-> ""]
None == [st |-> "none", node |-> NoNode, err |-> ""]
Raise(e) == [st |-> "err", node |-> NoNode, err |-> e]

\* ------------------------------------------------------------------------
\* Backend calls (WPD, libmtp, gvfs mount).  The device keeps a strict tree:
\* it refuses a second child of the same name and a child below a file.

\* objects listed for a node: EnumObjects(_object_id) on WPD,
\* get_files_and_folder(storage_id, entry_id) on libmtp
BackendList(b, o, node) ==
    IF b = "libmtp" /\ node.entry_id = LIBMTP_FILES_AND_FOLDERS_ROOT
    THEN Children(o, node.storage_id)
    ELSE Children(o, node.entry_id)

\* id of the backend object a node creates its children under
BackendParent(b, node) ==
    IF b = "libmtp" /\ node.entry_id = LIBMTP_FILES_AND_FOLDERS_ROOT
    THEN node.storage_id ELSE node.entry_id

CanCreate(o, pid, name) ==
    /\ pid \in DOMAIN o
    /\ o[pid].kind \in {"storage", "folder"}
    /\ ChildNamed(o, pid, name) = {}

AddObject(o, nid, pid, name, kind, size) ==
    o @@ (nid :> [parent |-> pid, name |-> name, kind |-> kind, size |-> size])

\* Delete / delete_object: the object and, recursively, its descendants
DeleteObject(o, oid) ==
    LET gone == {oid} \cup Descendants(o, oid)
    IN  [i \in (DOMAIN o) \ gone |-> o[i]]

\* ------------------------------------------------------------------------
\* PortableDevice.get_content: the storages (as a set; the order is taken
\* where it matters)
get_content(b, o) ==
    {IF b = "win" THEN WinPDC(o, s, <<DevName>>)
     ELSE IF b = "gvfs"
          THEN GvfsPDC(o, <<DevName, o[s].name>>, 0, 0, WPD_CONTENT_TYPE_STORAGE, TRUE)
          ELSE LibmtpPDC(<<DevName, o[s].name>>, s, LIBMTP_FILES_AND_FOLDERS_ROOT,
                         WPD_CONTENT_TYPE_STORAGE, 0)
     : s \in Children(o, DEVICE)}

\* the node get_children builds for the listed object c of node
ChildNode(b, o, node, c) ==
    IF b = "win" THEN WinPDC(o, c, node.full_filename)
    ELSE LibmtpPDC(Append(node.full_filename, o[c].name), node.storage_id, c,
                   IF o[c].kind = "folder" THEN WPD_CONTENT_TYPE_DIRECTORY
                   ELSE WPD_CONTENT_TYPE_FILE,
                   o[c].size)

\* get_child that returns the last match of the listing
get_child_last(b, o, node, name) ==
    IF b = "gvfs"
    THEN LET fullname == Append(node.full_filename, name)
         IN  IF ~os_path_exists(o, fullname) THEN None
             ELSE Ok(GvfsPDC(o, fullname, 1, 1,
                             IF os_path_isdir(o, fullname) THEN WPD_CONTENT_TYPE_DIRECTORY
                             ELSE WPD_CONTENT_TYPE_FILE, TRUE))
    ELSE LET matches == {c \in BackendList(b, o, node) : o[c].name = name}
         IN  IF matches = {} THEN None
             ELSE Ok(ChildNode(b, o, node, CHOOSE i \in matches : \A j \in matches : j <= i))

\* PortableDeviceContent.get_child
get_child(b, o, node, name) ==
    IF b = "gvfs"
    THEN LET fullname == Append(node.full_filename, name)
         IN  IF ~os_path_exists(o, fullname) THEN None
             ELSE Ok(GvfsPDC(o, fullname, 1, 1,
                             IF os_path_isdir(o, fullname) THEN WPD_CONTENT_TYPE_DIRECTORY
                             ELSE WPD_CONTENT_TYPE_FILE, TRUE))
    ELSE LET matches == {c \in BackendList(b, o, node) : o[c].name = name}
         IN  IF matches = {} THEN None
             ELSE Ok(ChildNode(b, o, node, FirstOf(matches)))

\* repeated get_child from a node; absent as soon as one segment is absent
RECURSIVE get_child_chain(_, _, _, _)
get_child_chain(b, o, node, segs) ==
    IF segs = <<>> THEN Ok(node)
    ELSE LET c == get_child(b, o, node, Head(segs))
         IN  IF c.st # "ok" THEN c ELSE get_child_chain(b, o, c.node, Tail(segs))

\* win_access.get_content_from_device_path
win_get_content_from_device_path(o, path) ==
    IF Len(path) < 2 THEN Raise("IOError")
    ELSE IF path[1] # DevName THEN None
    ELSE LET m == {e \in get_content("win", o) : e.name = path[2]}
         IN  IF m = {} THEN None
             ELSE get_child_chain("win", o, CHOOSE e \in m : TRUE, SubSeq(path, 3, Len(path)))

\* linux_access.get_content_from_device_path, _gvfs_found
gvfs_get_content_from_device_path(o, fpath) ==
    IF fpath = <<DevName>> THEN Raise("IOError")
    ELSE IF ~os_path_exists(o, fpath) THEN None
    ELSE Ok(GvfsPDC(o, fpath, 1, 1,
                    IF os_path_isdir(o, fpath) THEN WPD_CONTENT_TYPE_DIRECTORY
                    ELSE WPD_CONTENT_TYPE_FILE, TRUE))

\* linux_access.get_content_from_device_path, libmtp
libmtp_get_content_from_device_path(o, fpath) ==
    IF fpath = <<DevName>> THEN Raise("IOError")
    ELSE IF Len(fpath) < 2 THEN Raise("IndexError")
    ELSE LET m == {s \in get_content("libmtp", o) : s.full_filename = SubSeq(fpath, 1, 2)}
         IN  IF m = {} THEN Raise("IOError")
             ELSE get_child_chain("libmtp", o, CHOOSE s \in m : TRUE, SubSeq(fpath, 3, Len(fpath)))

get_content_from_device_path(b, o, path) ==
    IF b = "win" THEN win_get_content_from_device_path(o, path)
    ELSE IF b = "gvfs" THEN gvfs_get_content_from_device_path(o, path)
    ELSE libmtp_get_content_from_device_path(o, path)

\* PortableDeviceContent.get_path of a path of at least one segment.  A path
\* that starts with the device name is resolved from the device; a first
\* segment equal to the name of the node is cut off (split(sep, 1)[1], which
\* raises IndexError when nothing follows it).
get_path(b, o, node, path) ==
    IF path[1] = DevName THEN get_content_from_device_path(b, o, path)
    ELSE IF path[1] = node.name /\ Len(path) = 1 THEN Raise("IndexError")
    ELSE LET rest == IF path[1] = node.name THEN Tail(path) ELSE path
             full == node.full_filename \o rest
         IN  IF b = "gvfs"
             THEN IF ~os_path_exists(o, full) THEN None
                  ELSE Ok(GvfsPDC(o, full, 1, 1,
                                  IF os_path_isdir(o, full) THEN WPD_CONTENT_TYPE_DIRECTORY
                                  ELSE WPD_CONTENT_TYPE_FILE, TRUE))
             ELSE get_child_chain(b, o, node, rest)

\* ------------------------------------------------------------------------
\* PortableDeviceContent.create_content.  Result: the tree, the next free
\* object id, the node or error, and the paths of the objects created.
Mut(o, next, res, created) == [o |-> o, next |-> next, res |-> res, created |-> created]

gvfs_create_content(o, next, node, dirname) ==
    LET fullname == Append(node.full_filename, dirname)
        pid == MountLookup(o, node.full_filename)
    IN  IF os_path_exists(o, fullname) THEN Mut(o, next, Raise("AlreadyExists"), <<>>)
        ELSE IF ~CanCreate(o, pid, dirname) THEN Mut(o, next, Raise("OSError"), <<>>)
        ELSE LET o2 == AddObject(o, next, pid, dirname, "folder", 0)
             IN  Mut(o2, next + 1,
                     Ok(GvfsPDC(o2, fullname, 0, 0, WPD_CONTENT_TYPE_DIRECTORY, TRUE)),
                     <<PathOf(o2, next)>>)

\* what the device answers to a request for a new object name below pid.
\* The code sends the request without looking at the names that are there;
\* dup tells whether the device takes a name a sibling already has.
DeviceTakes(o, pid, name, dup) ==
    /\ pid \in DOMAIN o
    /\ o[pid].kind \in {"storage", "folder"}
    /\ dup \/ ChildNamed(o, pid, name) = {}

\* create_content over libmtp: create_folder(dirname, entry_id, storage_id)
libmtp_create_folder(o, next, node, dirname, dup) ==
    LET fullname == Append(node.full_filename, dirname)
        pid == BackendParent("libmtp", node)
    IN  IF ~DeviceTakes(o, pid, dirname, dup) THEN Mut(o, next, Raise("IOError"), <<>>)
        ELSE LET o2 == AddObject(o, next, pid, dirname, "folder", 0)
             IN  Mut(o2, next + 1,
                     Ok(LibmtpPDC(fullname, node.storage_id, next,
                                  WPD_CONTENT_TYPE_DIRECTORY, 0)),
                     <<PathOf(o2, next)>>)

\* on a device that refuses a name that is already there
libmtp_create_content(o, next, node, dirname) ==
    libmtp_create_folder(o, next, node, dirname, FALSE)

\* create_content over WPD: CreateObjectWithPropertiesOnly, then get_child
win_create_object(o, next, node, dirname, dup) ==
    LET pid == BackendParent("win", node)
    IN  IF ~DeviceTakes(o, pid, dirname, dup) THEN Mut(o, next, Raise("IOError"), <<>>)
        ELSE LET o2 == AddObject(o, next, pid, dirname, "folder", 0)
                 pdc == get_child("win", o2, node, dirname)
             IN  IF pdc.st # "ok" THEN Mut(o2, next + 1, Raise("IOError"), <<PathOf(o2, next)>>)
                 ELSE Mut(o2, next + 1, pdc, <<PathOf(o2, next)>>)

\* on a device that refuses a name that is already there
win_create_content(o, next, node, dirname) ==
    win_create_object(o, next, node, dirname, FALSE)

create_content(b, o, next, node, dirname) ==
    IF b = "win" THEN win_create_content(o, next, node, dirname)
    ELSE IF b = "gvfs" THEN gvfs_create_content(o, next, node, dirname)
    ELSE libmtp_create_content(o, next, node, dirname)

\* create_content on a device that answers a second use of a name with dup
create_content_on(b, o, next, node, dirname, dup) ==
    IF b = "win" THEN win_create_object(o, next, node, dirname, dup)
    ELSE IF b = "gvfs" THEN gvfs_create_content(o, next, node, dirname)
    ELSE libmtp_create_folder(o, next, node, dirname, dup)

\* ------------------------------------------------------------------------
\* makedirs

\* os.mkdir on the mount: the parent must be a directory of the device tree
\* (no device and no storage can be made) and the name must be free
os_mkdir(o, next, p) ==
    LET pid == IF Len(p) >= 2 THEN MountLookup(o, SubSeq(p, 1, Len(p) - 1)) ELSE NoObj
    IN  IF os_path_exists(o, p) THEN Mut(o, next, Raise("AlreadyExists"), <<>>)
        ELSE IF pid = NoObj \/ pid = DEVICE \/ ~CanCreate(o, pid, p[Len(p)])
             THEN Mut(o, next, Raise("OSError"), <<>>)
        ELSE LET o2 == AddObject(o, next, pid, p[Len(p)], "folder", 0)
             IN  Mut(o2, next + 1, Ok(NoNode), <<PathOf(o2, next)>>)

\* os.makedirs(name, exist_ok): parents first, then the leaf
RECURSIVE os_makedirs(_, _, _, _)
os_makedirs(o, next, p, exist_ok) ==
    LET head == SubSeq(p, 1, Len(p) - 1)
        leaf(up, mk) ==
            IF mk.res.st = "err" /\ exist_ok /\ os_path_isdir(up.o, p)
            THEN Mut(up.o, up.next, Ok(NoNode), up.created)
            ELSE Mut(mk.o, mk.next, mk.res, up.created \o mk.created)
        after(up) ==
            IF up.res.st = "err" /\ up.res.err # "AlreadyExists" THEN up
            ELSE leaf(up, os_mkdir(up.o, up.next, p))
    IN  after(IF head # <<>> /\ ~os_path_exists(o, head)
              THEN os_makedirs(o, next, head, exist_ok)
              ELSE Mut(o, next, Ok(NoNode), <<>>))

\* makedirs that creates without looking whether the path exists
gvfs_makedirs_unchecked(o, next, path) ==
    LET found(mk, cont) ==
            IF mk.res.st = "err" THEN Mut(mk.o, mk.next, Raise("IOError"), mk.created)
            ELSE IF cont.st # "ok" THEN Mut(mk.o, mk.next, Raise("IOError"), mk.created)
            ELSE Mut(mk.o, mk.next, cont, mk.created)
        made(mk) == found(mk, gvfs_get_content_from_device_path(mk.o, path))
    IN  made(os_makedirs(o, next, path, FALSE))

\* linux_access.makedirs, _gvfs_found
gvfs_makedirs(o, next, path) ==
    LET found(mk, cont) ==
            IF mk.res.st = "err" THEN Mut(mk.o, mk.next, Raise("IOError"), mk.created)
            ELSE IF cont.st = "err" THEN Mut(mk.o, mk.next, Raise("IndexError"), mk.created)
            ELSE IF cont.st = "none" THEN Mut(mk.o, mk.next, Raise("IOError"), mk.created)
            ELSE Mut(mk.o, mk.next, cont, mk.created)
        made(mk) == found(mk, gvfs_get_content_from_device_path(mk.o, path))
    IN  made(IF ~os_path_exists(o, path) THEN os_makedirs(o, next, path, TRUE)
             ELSE Mut(o, next, Ok(NoNode), <<>>))

\* the loop of linux_access.makedirs over parts[2:], libmtp
RECURSIVE libmtp_makedirs_loop(_, _, _, _, _)
libmtp_makedirs_loop(o, next, cont, segs, created) ==
    IF segs = <<>> THEN Mut(o, next, Ok(cont), created)
    ELSE LET made(cc) ==
                 IF cc.res.st = "err" THEN Mut(cc.o, cc.next, cc.res, created \o cc.created)
                 ELSE libmtp_makedirs_loop(cc.o, cc.next, cc.res.node, Tail(segs),
                                           created \o cc.created)
             child(c) ==
                 IF c.st = "ok"
                 THEN libmtp_makedirs_loop(o, next, c.node, Tail(segs), created)
                 ELSE made(libmtp_create_content(o, next, cont, Head(segs)))
         IN  child(get_child("libmtp", o, cont, Head(segs)))

\* linux_access.makedirs, libmtp
libmtp_makedirs(o, next, path) ==
    IF Len(path) <= 2 THEN Mut(o, next, Raise("IOError"), <<>>)
    ELSE LET m == {s \in get_content("libmtp", o) : s.full_filename = SubSeq(path, 1, 2)}
         IN  IF m = {} THEN Mut(o, next, Raise("IOError"), <<>>)
             ELSE libmtp_makedirs_loop(o, next, CHOOSE s \in m : TRUE,
                                       SubSeq(path, 3, Len(path)), <<>>)

\* the loop of win_access.makedirs over parts[1:]
RECURSIVE win_makedirs_loop(_, _, _, _, _, _)
win_makedirs_loop(o, next, content, path_int, segs, created) ==
    IF segs = <<>> THEN Mut(o, next, Ok(content), created)
    ELSE LET path2 == Append(path_int, Head(segs))
             made(cc) ==
                 IF cc.res.st = "err" THEN Mut(cc.o, cc.next, cc.res, created \o cc.created)
                 ELSE win_makedirs_loop(cc.o, cc.next, cc.res.node, path2, Tail(segs),
                                        created \o cc.created)
             found(ziel) ==
                 IF ziel.st = "err" THEN Mut(o, next, ziel, created)
                 ELSE IF ziel.st = "ok"
                 THEN win_makedirs_loop(o, next, ziel.node, path2, Tail(segs), created)
                 ELSE made(win_create_content(o, next, content, Head(segs)))
         IN  found(win_get_content_from_device_path(o, path2))

\* win_access.makedirs; first is the storage dev.get_content()[0]
win_makedirs(o, next, path, first) ==
    win_makedirs_loop(o, next, WinPDC(o, first, <<DevName>>), <<path[1]>>, Tail(path), <<>>)

makedirs(b, o, next, path, first) ==
    IF b = "win" THEN win_makedirs(o, next, path, first)
    ELSE IF b = "gvfs" THEN gvfs_makedirs(o, next, path)
    ELSE libmtp_makedirs(o, next, path)

\* ------------------------------------------------------------------------
\* PortableDeviceContent.remove

\* the backend object a node stands for: the path on the mount, the object
\* id on WPD and libmtp
TargetOf(b, o, node) ==
    IF b = "gvfs" THEN MountLookup(o, node.full_filename)
    ELSE IF node.entry_id \in DOMAIN o THEN node.entry_id ELSE NoObj

gvfs_remove(o, node) ==
    LET t == MountLookup(o, node.full_filename)
    IN  IF ~os_path_exists(o, node.full_filename) THEN Mut(o, 0, Ok(node), <<>>)
        ELSE IF node.content_type = WPD_CONTENT_TYPE_FILE
        THEN \* os.remove: not on a directory
             IF o[t].kind = "file" THEN Mut(DeleteObject(o, t), 0, Ok(node), <<>>)
             ELSE Mut(o, 0, Raise("OSError"), <<>>)
        ELSE \* shutil.rmtree: only on a directory
             IF o[t].kind = "file" THEN Mut(o, 0, Raise("OSError"), <<>>)
             ELSE Mut(DeleteObject(o, t), 0, Ok(node), <<>>)

\* remove that reports success without deleting
backend_remove_noop(o, node) ==
    IF node.entry_id \in DOMAIN o
    THEN Mut(o, 0, Ok(node), <<>>)
    ELSE Mut(o, 0, Raise("IOError"), <<>>)

\* Delete(WPD_DELETE_WITH_RECURSION, ...) and delete_object(entry_id)
backend_remove(o, node) ==
    IF node.entry_id \in DOMAIN o
    THEN Mut(DeleteObject(o, node.entry_id), 0, Ok(node), <<>>)
    ELSE Mut(o, 0, Raise("IOError"), <<>>)

remove(b, o, node) ==
    IF b = "gvfs" THEN gvfs_remove(o, node) ELSE backend_remove(o, node)

\* ------------------------------------------------------------------------
\* State
VARIABLES
    backend,      \* the access mechanism in use: "win", "gvfs" or "libmtp"
    objs,         \* the device tree
    nextId,       \* next object id the device hands out
    held,         \* a node value the caller holds (NoNode: none)
    last,         \* the last operation: what was asked and what came back
    prev,         \* the makedirs before it, when last is a makedirs of the same path
    wpc,          \* position of the walk generator
    wargs,        \* arguments of the walk: path, callback, error_callback
    walk_cont,    \* walk: queue of nodes still to expand
    cont,         \* walk: node being expanded
    directories,  \* walk: directories collected for cont
    files,        \* walk: files collected for cont
    pending,      \* walk: children of cont the listing has not produced yet
    yields,       \* walk: the triples yielded so far
    visits,       \* walk: number of callback calls so far
    faults,       \* walk: backend faults so far
    wlog,         \* walk: what happened (failed nodes, how the walk ended)
    libmtp,       \* linux_access._libmtp is set
    mounted,      \* the directory _gvfs_search_path exists
    plugged,      \* the devices plugged into the host
    devices,      \* the PortableDevice handles constructed so far
    com,          \* win_access: calls of CoInitialize and CoUninitialize so far
    kills,        \* callers of the step that kills the users of the USB bus
    cli           \* nx_mtp_sender: the operation run and what it returned

treevars == <<backend, objs, nextId, held, last, prev>>
walkvars == <<wpc, wargs, walk_cont, cont, directories, files, pending, yields,
              visits, faults, wlog>>
sessvars == <<libmtp, mounted, plugged, devices, com, kills, cli>>
vars == <<backend, objs, nextId, held, last, prev, wpc, wargs, walk_cont, cont,
          directories, files, pending, yields, visits, faults, wlog,
          libmtp, mounted, plugged, devices, com, kills, cli>>

NoOp == [op |-> "none", path |-> <<>>, res |-> None, created |-> <<>>, pre |-> InitObjs]
Op(op, path, res, created, pre) ==
    [op |-> op, path |-> path, res |-> res, created |-> created, pre |-> pre]

\* a path as the string it is: its segments and the separator between them,
\* os.sep ("os") or the other of "/" and "\\" ("alt")
Seps == {"os", "alt"}
Spelled(segs, sep) == [segs |-> segs, sep |-> sep]
NoRoot == [built |-> Spelled(<<>>, "os"), now |-> Spelled(<<>>, "os")]

NoArgs == [path |-> <<>>, sep |-> "os", cancelAt |-> 0, onError |-> "absent"]
NoLog == [failed |-> <<>>, end |-> "", root |-> NoRoot]

\* A PortableDevice handle: the variant it was constructed under, the name
\* of the device, whether a libmtp connection is open, whether the caller
\* got it, and how often close() was called on it
Handle(variant, name, connected, returned) ==
    [variant |-> variant, name |-> name, connected |-> connected,
     returned |-> returned, closes |-> 0]

NoCli == [op |-> "none", st |-> "none", value |-> 0, found |-> FALSE, name |-> "",
          rest |-> <<>>, enumerated |-> FALSE]

\* the session the tree operations run in: one device, ready, enumerated
\* under the backend and still open
SessionOpen ==
    /\ libmtp = (backend = "libmtp")
    /\ mounted = (backend = "gvfs")
    /\ plugged = <<[name |-> DevName, listing |-> "ready"]>>
    /\ devices = <<Handle(backend, DevName, backend = "libmtp", TRUE)>>
    /\ com = [init |-> IF backend = "win" THEN 1 ELSE 0, uninit |-> 0,
              manager |-> backend = "win"]
    /\ kills = IF backend = "libmtp" THEN <<"get_portable_devices">> ELSE <<>>
    /\ cli = NoCli

WalkIdle ==
    /\ wpc = "idle" /\ wargs = NoArgs /\ walk_cont = <<>> /\ cont = NoNode
    /\ directories = <<>> /\ files = <<>> /\ pending = {} /\ yields = <<>>
    /\ visits = 0 /\ faults = 0 /\ wlog = NoLog

Init ==
    /\ backend \in Backends
    /\ objs = InitObjs
    /\ nextId = 3
    /\ held = NoNode
    /\ last = NoOp
    /\ prev = NoOp
    /\ WalkIdle
    /\ SessionOpen

\* ------------------------------------------------------------------------
\* Operations on the tree.  They are issued while no walk is in progress
\* (a listing is drained or abandoned before another call on the device).

\* dev.get_content()[0]: the storage the device enumerates first
FirstStorage == FirstOf(Children(objs, DEVICE))

\* held = makedirs(dev, path): the caller keeps the node that comes back
Makedirs ==
    /\ wpc = "idle"
    /\ \E path \in ReqPaths :
          \E r \in {makedirs(backend, objs, nextId, path, FirstStorage)} :
              /\ r.next <= MaxId + 1
              /\ objs' = r.o
              /\ nextId' = r.next
              /\ held' = IF r.res.st = "ok" THEN r.res.node ELSE held
              /\ last' = Op("makedirs", path, r.res, r.created, objs)
              /\ prev' = IF last.op = "makedirs" /\ last.path = path
                         THEN [last EXCEPT !.pre = InitObjs] ELSE NoOp
    /\ UNCHANGED <<backend, walkvars, sessvars>>

\* get_content_from_device_path(dev, path); the caller keeps the node
Resolve(path) ==
    /\ wpc = "idle"
    /\ \E r \in {get_content_from_device_path(backend, objs, path)} :
           /\ r.st = "ok"
           /\ held' = r.node
           /\ last' = NoOp
           /\ prev' = NoOp
    /\ UNCHANGED <<backend, objs, nextId, walkvars, sessvars>>

\* held.upload_file(name, local file) of a name that is not on the device yet
UploadFile(name) ==
    /\ wpc = "idle"
    /\ held # NoNode
    /\ nextId <= MaxId
    /\ LET pid == IF backend = "gvfs" THEN MountLookup(objs, held.full_filename)
                  ELSE BackendParent(backend, held)
       IN  /\ CanCreate(objs, pid, name)
           /\ objs' = AddObject(objs, nextId, pid, name, "file", FileSize)
    /\ nextId' = nextId + 1
    /\ last' = NoOp
    /\ prev' = NoOp
    /\ UNCHANGED <<backend, held, walkvars, sessvars>>

\* held.remove(); a storage is never removed
Remove ==
    /\ wpc = "idle"
    /\ held # NoNode
    /\ LET t == TargetOf(backend, objs, held)
       IN  IF t = NoObj THEN TRUE ELSE objs[t].kind # "storage"
    /\ \E r \in {remove(backend, objs, held)} :
           /\ objs' = r.o
           /\ last' = Op("remove", held.full_filename, r.res, <<>>, objs)
           /\ prev' = NoOp
    /\ UNCHANGED <<backend, nextId, held, walkvars, sessvars>>

Next ==
    \/ Makedirs
    \/ \E path \in ReqPaths : Resolve(path)
    \/ \E name \in Names : UploadFile(name)
    \/ Remove

Spec == Init /\ [][Next]_vars

\* ------------------------------------------------------------------------
\* walk

\* the objects get_children of a node lists: os.listdir on the mount (nothing
\* for what is not a directory), the object listing on WPD and libmtp
Listing(b, o, node) ==
    IF b = "gvfs"
    THEN IF os_path_isdir(o, node.full_filename)
         THEN Children(o, MountLookup(o, node.full_filename)) ELSE {}
    ELSE BackendList(b, o, node)

\* the node get_children yields for the listed object c
get_children_node(b, o, node, c, statOk) ==
    IF b = "gvfs"
    THEN LET full_name == Append(node.full_filename, o[c].name)
         IN  GvfsPDC(o, full_name, 1, 0,
                     IF os_path_isdir(o, full_name) THEN WPD_CONTENT_TYPE_DIRECTORY
                     ELSE WPD_CONTENT_TYPE_FILE, statOk)
    ELSE ChildNode(b, o, node, c)

\* a set of object ids in the order the backend lists them: by object id
RECURSIVE InListingOrder(_)
InListingOrder(S) ==
    IF S = {} THEN <<>> ELSE <<FirstOf(S)>> \o InListingOrder(S \ {FirstOf(S)})

\* PortableDeviceContent.get_children, drained into a sequence
get_children(b, o, node) ==
    LET ids == InListingOrder(Listing(b, o, node))
    IN  [i \in 1..Len(ids) |-> get_children_node(b, o, node, ids[i], TRUE)]

\* list.sort(key=lambda ent: ent.full_filename) / sorted(...): stable
RECURSIVE InsertSorted(_, _)
InsertSorted(n, s) ==
    IF s = <<>> THEN <<n>>
    ELSE IF PathLess(n.full_filename, Head(s).full_filename) THEN <<n>> \o s
    ELSE <<Head(s)>> \o InsertSorted(n, Tail(s))

RECURSIVE sort_by_full_filename(_)
sort_by_full_filename(s) ==
    IF s = <<>> THEN <<>>
    ELSE InsertSorted(s[Len(s)], sort_by_full_filename(SubSeq(s, 1, Len(s) - 1)))

\* extend that enqueues the directories a second time
extend_twice(q, dirs) == q \o dirs \o dirs

\* walk_cont.extend(directories)
extend(q, dirs) == q \o dirs

\* a walk that does not look at what the callback answers
callback_ignored(cancelAt, n) == TRUE

\* what the callback answers on its n-th call: false on call number cancelAt
callback(cancelAt, n) == ~(cancelAt # 0 /\ n = cancelAt)

\* except Exception: the walk goes on after a failed listing iff this holds
GoesOnAfterError(b, onError) ==
    IF onError = "absent" THEN b = "win" ELSE onError = "true"

\* how the walk ends when it does not go on after a failed listing
EndAfterError(b, onError) ==
    IF onError = "absent" THEN "raised" ELSE "aborted"

\* a loop that asks for the next triple again although the queue is empty
after_loop_again == "yielded"

\* where the generator is when while walk_cont: finds the queue empty
after_loop == "done"

\* a for loop left before the listing has produced every child
drained_unchecked(p) == TRUE

\* for child in cont.get_children(): the loop ends when the listing has
\* produced every child
drained(p) == p = {}

\* while walk_cont: take the head and open the listing of its children;
\* the generator finishes when the queue is empty
Dequeue(q, lg) ==
    IF q = <<>>
    THEN /\ wpc' = after_loop
         /\ wlog' = [lg EXCEPT !.end = "finished"]
         /\ walk_cont' = q
         /\ UNCHANGED <<cont, pending>>
         /\ directories' = <<>>
         /\ files' = <<>>
    ELSE /\ wpc' = "enum"
         /\ cont' = Head(q)
         /\ walk_cont' = Tail(q)
         /\ directories' = <<>>
         /\ files' = <<>>
         /\ pending' = Listing(backend, objs, Head(q))
         /\ wlog' = lg

\* full_filename of the node walk starts from: as the constructor joined it
\* with os.sep (built) and as walk holds it (now).  win_access replaces it
\* by the path as the caller spelled it; linux_access leaves the node alone.
walk_root(b, node, path, sep) ==
    [built |-> Spelled(node.full_filename, "os"),
     now |-> IF b = "win" THEN Spelled(path, sep) ELSE Spelled(node.full_filename, "os")]

\* walk(dev, path, callback, error_callback) up to the first listing; the
\* path is spelled with the separator sep
WalkStart(path, sep, cancelAt, onError) ==
    /\ wpc = "idle"
    /\ wargs' = [path |-> path, sep |-> sep, cancelAt |-> cancelAt, onError |-> onError]
    /\ LET r == get_content_from_device_path(backend, objs, path)
       IN  IF r.st = "err"
           THEN /\ wpc' = "done"
                /\ wlog' = [wlog EXCEPT !.end = "raised"]
                /\ UNCHANGED <<walk_cont, cont, directories, files, pending>>
           ELSE IF r.st = "none"
           THEN /\ wpc' = "done"
                /\ wlog' = [wlog EXCEPT !.end = "finished"]
                /\ UNCHANGED <<walk_cont, cont, directories, files, pending>>
           ELSE Dequeue(<<[r.node EXCEPT !.full_filename = path]>>,
                        [wlog EXCEPT !.root = walk_root(backend, r.node, path, sep)])
    /\ UNCHANGED <<treevars, yields, visits, faults, sessvars>>

\* for child in cont.get_children(): the listing produces the object c;
\* classify it and ask the callback
WalkChild ==
    /\ wpc = "enum"
    /\ \E c \in pending, statOk \in BOOLEAN :
          /\ statOk \/ (backend = "gvfs" /\ objs[c].kind = "file" /\ faults < MaxFaults)
          /\ LET child == get_children_node(backend, objs, cont, c, statOk)
                 isdir == child.content_type \in
                             {WPD_CONTENT_TYPE_STORAGE, WPD_CONTENT_TYPE_DIRECTORY}
                 isfile == child.content_type = WPD_CONTENT_TYPE_FILE
             IN  /\ visits' = visits + 1
                 /\ faults' = IF statOk THEN faults ELSE faults + 1
                 /\ IF callback(wargs.cancelAt, visits + 1)
                    THEN /\ directories' =
                              IF isdir THEN Append(directories, child) ELSE directories
                         /\ files' = IF isfile THEN Append(files, child) ELSE files
                         /\ pending' = pending \ {c}
                         /\ UNCHANGED <<wpc, wlog>>
                    ELSE /\ directories' = <<>>
                         /\ files' = <<>>
                         /\ pending' = {}
                         /\ wpc' = "done"
                         /\ wlog' = [wlog EXCEPT !.end = "cancelled"]
    /\ UNCHANGED <<treevars, wargs, walk_cont, cont, yields, sessvars>>

\* the listing is drained: sort and yield (path, directories, files).
\* linux_access sorts the lists in place, win_access yields sorted copies.
WalkYield ==
    /\ wpc = "enum"
    /\ drained(pending)
    /\ yields' = Append(yields, [path |-> cont.full_filename,
                                 directories |-> sort_by_full_filename(directories),
                                 files |-> sort_by_full_filename(files)])
    /\ directories' = IF backend = "win" THEN directories
                      ELSE sort_by_full_filename(directories)
    /\ files' = IF backend = "win" THEN files ELSE sort_by_full_filename(files)
    /\ wpc' = "yielded"
    /\ UNCHANGED <<treevars, wargs, walk_cont, cont, pending, visits, faults, wlog, sessvars>>

\* the consumer asks for the next triple: enqueue the directories, go on
WalkResume ==
    /\ wpc = "yielded"
    /\ Dequeue(extend(walk_cont, directories), wlog)
    /\ UNCHANGED <<treevars, wargs, yields, visits, faults, sessvars>>

\* the listing of cont raises: os.listdir fails before the first child on
\* the mount; on WPD and libmtp the listing can fail at any child
WalkFault ==
    /\ wpc = "enum"
    /\ faults < MaxFaults
    /\ backend = "gvfs" =>
          /\ os_path_isdir(objs, cont.full_filename)
          /\ directories = <<>> /\ files = <<>>
          /\ pending = Listing(backend, objs, cont)
    /\ faults' = faults + 1
    /\ IF GoesOnAfterError(backend, wargs.onError)
       THEN Dequeue(extend(walk_cont, directories),
                    [wlog EXCEPT !.failed =
                        Append(@, [path |-> cont.full_filename, at |-> Len(yields)])])
       ELSE /\ wpc' = "done"
            /\ wlog' = [failed |-> Append(wlog.failed,
                                          [path |-> cont.full_filename, at |-> Len(yields)]),
                        end |-> EndAfterError(backend, wargs.onError),
                        root |-> wlog.root]
            /\ directories' = <<>>
            /\ files' = <<>>
            /\ UNCHANGED <<walk_cont, cont, pending>>
    /\ UNCHANGED <<treevars, wargs, yields, visits, sessvars>>

\* ------------------------------------------------------------------------
\* The walk over a device tree that does not change meanwhile.  The trees
\* are those makedirs and upload_file build below storage S1 with at most
\* MaxWalkObjs objects, created in the order of their paths.

PathKeyLess(p, q) == Len(p) < Len(q) \/ (Len(p) = Len(q) /\ PathLess(p, q))

GrowTree(o) ==
    LET n == Cardinality(DOMAIN o) + 1
    IN  {t \in {AddObject(o, n, pid, name, kind, IF kind = "file" THEN FileSize ELSE 0) :
                  pid \in {i \in DOMAIN o : i # 2 /\ o[i].kind \in {"storage", "folder"}},
                  name \in Names, kind \in {"folder", "file"}} :
            /\ ChildNamed(o, t[n].parent, t[n].name) = {}
            /\ \A i \in (DOMAIN o) \ {1, 2} : PathKeyLess(PathOf(o, i), PathOf(t, n))}

RECURSIVE TreesUpTo(_)
TreesUpTo(k) ==
    IF k = 0 THEN {InitObjs}
    ELSE LET T == TreesUpTo(k - 1) IN T \cup UNION {GrowTree(o) : o \in T}

WalkRoots ==
    {<<DevName, "S1">>, <<DevName, "S1", "a">>, <<DevName, "S2">>,
     <<DevName, MissingStor>>, <<OtherDev, "S1">>, <<DevName, "S1", "b", "a">>,
     <<OtherDev>>}

InitWalk ==
    /\ backend \in Backends
    /\ objs \in TreesUpTo(MaxWalkObjs)
    /\ nextId = Cardinality(DOMAIN objs) + 1
    /\ held = NoNode
    /\ last = NoOp
    /\ prev = NoOp
    /\ WalkIdle
    /\ SessionOpen

\* what a consumer does to the list of directories it was handed: drop the
\* first entry, or reverse the list
ConsumerChanges(list) ==
    (IF list = <<>> THEN {} ELSE {Tail(list)})
    \cup (IF Len(list) < 2 THEN {}
          ELSE {[i \in 1..Len(list) |-> list[Len(list) + 1 - i]]})

\* between two next() calls the consumer changes the directories list of
\* the triple it got.  linux_access yields the list walk goes on with,
\* win_access yields a sorted copy.
ConsumerMutates ==
    /\ wpc = "yielded"
    /\ \E changed \in ConsumerChanges(yields[Len(yields)].directories) :
          /\ yields' = [yields EXCEPT ![Len(yields)].directories = changed]
          /\ directories' = IF backend = "win" THEN directories ELSE changed
    /\ UNCHANGED <<treevars, wpc, wargs, walk_cont, cont, files, pending, visits, faults,
                   wlog, sessvars>>

NextWalk ==
    \/ \E path \in WalkRoots, sep \in Seps, cancelAt \in 0..MaxVisits,
          onError \in {"absent", "true", "false"} : WalkStart(path, sep, cancelAt, onError)
    \/ WalkChild
    \/ WalkYield
    \/ WalkResume
    \/ WalkFault

SpecWalk == InitWalk /\ [][NextWalk]_vars

\* the walk with a consumer that keeps asking for the next triple,
\* and whose callbacks never ask to stop
NextWalkLive ==
    \/ \E path \in WalkRoots, sep \in Seps, onError \in {"absent", "true"} :
          WalkStart(path, sep, 0, onError)
    \/ WalkChild
    \/ WalkYield
    \/ WalkResume
    \/ WalkFault

\* the generator runs on whenever the consumer asks for the next triple
SpecWalkLive ==
    /\ InitWalk /\ [][NextWalkLive]_vars
    /\ WF_vars(WalkChild) /\ WF_vars(WalkYield) /\ WF_vars(WalkResume)

\* the walk with a consumer that changes the lists it is handed
NextWalkConsumer ==
    \/ \E path \in WalkRoots, sep \in Seps, cancelAt \in 0..MaxVisits,
          onError \in {"absent", "true", "false"} : WalkStart(path, sep, cancelAt, onError)
    \/ WalkChild
    \/ WalkYield
    \/ WalkResume
    \/ WalkFault
    \/ ConsumerMutates

SpecWalkConsumer == InitWalk /\ [][NextWalkConsumer]_vars

\* ------------------------------------------------------------------------
\* Properties of makedirs and remove (specification Spec)

\* the device name and the storage segment of a path resolve on the tree o
PrefixResolves(o, path) ==
    /\ Len(path) >= 2
    /\ path[1] = DevName
    /\ ChildNamed(o, DEVICE, path[2]) # {}

\* the prefixes of path below the storage that do not exist in the tree o,
\* shortest first
RECURSIVE MissingPrefixes(_, _, _)
MissingPrefixes(o, path, k) ==
    IF k > Len(path) THEN <<>>
    ELSE (IF MountLookup(o, SubSeq(path, 1, k)) = NoObj THEN <<SubSeq(path, 1, k)>> ELSE <<>>)
         \o MissingPrefixes(o, path, k + 1)

TwiceInSuccession ==
    /\ last.op = "makedirs"
    /\ prev.op = "makedirs"
    /\ prev.path = last.path
    /\ PrefixResolves(last.pre, last.path)

\* C1: makedirs is idempotent.  When makedirs(dev, path) is called twice in
\* succession on a path whose device/storage prefix resolves, neither call
\* raises AlreadyExists, the second call creates no directory and leaves the
\* tree as the first call left it, and when the first call returned a node
\* the second returns a node with the same fullPath and kind.
C1_MakedirsIdempotent ==
    TwiceInSuccession =>
        /\ prev.res.err # "AlreadyExists"
        /\ last.res.err # "AlreadyExists"
        /\ last.created = <<>>
        /\ objs = last.pre
        /\ prev.res.st = "ok" =>
              /\ last.res.st = "ok"
              /\ last.res.node.full_filename = prev.res.node.full_filename
              /\ last.res.node.content_type = prev.res.node.content_type

\* the first call created two directories, the second returned the leaf
C1_Witness ==
    /\ TwiceInSuccession
    /\ Len(prev.created) = 2
    /\ last.res.st = "ok"

\* C8: after makedirs(dev, D/S/s1/.../sn) returns (n >= 1, S exists) every
\* prefix resolves, exactly the missing segments were created, parent before
\* child and each below its preceding segment, and the returned node is a
\* Directory whose fullPath is the requested path.
C8_MakedirsCreatesChain ==
    (/\ last.op = "makedirs"
     /\ last.res.st = "ok"
     /\ Len(last.path) >= 3
     /\ PrefixResolves(last.pre, last.path)) =>
        /\ \A k \in 2..Len(last.path) :
              get_content_from_device_path(backend, objs, SubSeq(last.path, 1, k)).st = "ok"
        /\ last.created = MissingPrefixes(last.pre, last.path, 3)
        /\ last.res.node.content_type = WPD_CONTENT_TYPE_DIRECTORY
        /\ last.res.node.full_filename = last.path

\* C8 without the case of a leaf that already exists as a file
C8_WhenLeafIsNoFile ==
    (/\ last.op = "makedirs"
     /\ last.res.st = "ok"
     /\ Len(last.path) >= 3
     /\ PrefixResolves(last.pre, last.path)
     /\ LET t == MountLookup(last.pre, last.path)
        IN  IF t = NoObj THEN TRUE ELSE last.pre[t].kind # "file") =>
        /\ \A k \in 2..Len(last.path) :
              get_content_from_device_path(backend, objs, SubSeq(last.path, 1, k)).st = "ok"
        /\ last.created = MissingPrefixes(last.pre, last.path, 3)
        /\ last.res.node.content_type = WPD_CONTENT_TYPE_DIRECTORY
        /\ last.res.node.full_filename = last.path

\* C9: makedirs on a path whose device name or storage segment does not
\* resolve fails with an error and creates nothing.
C9_MakedirsUnresolvedPrefixFails ==
    (last.op = "makedirs" /\ ~PrefixResolves(last.pre, last.path)) =>
        /\ last.res.st = "err"
        /\ last.created = <<>>
        /\ objs = last.pre

\* C9 on the Linux backends
C9_OnLinux ==
    backend # "win" => C9_MakedirsUnresolvedPrefixFails

\* the paths that a successful remove of the node n took off the tree pre
RemovedPaths(b, pre, n) ==
    LET t == TargetOf(b, pre, n)
    IN  {n.full_filename} \cup
        (IF t = NoObj THEN {}
         ELSE {PathOf(pre, i) : i \in {t} \cup Descendants(pre, t)})

\* C10: after remove() on a node succeeded, get_child(name) on the former
\* parent and get_content_from_device_path of the former full path are
\* absent, for the node and for every former descendant.
C10_RemovedIsAbsent ==
    (last.op = "remove" /\ last.res.st = "ok") =>
        \A p \in RemovedPaths(backend, last.pre, last.res.node) :
            /\ get_content_from_device_path(backend, objs, p).st = "none"
            /\ LET par == get_content_from_device_path(backend, objs,
                                                       SubSeq(p, 1, Len(p) - 1))
               IN  par.st = "ok" => get_child(backend, objs, par.node, p[Len(p)]).st = "none"

\* a directory with something in it was removed
C10_Witness ==
    /\ last.op = "remove"
    /\ last.res.st = "ok"
    /\ LET t == TargetOf(backend, last.pre, last.res.node)
       IN  /\ t # NoObj
           /\ Descendants(last.pre, t) # {}

\* ------------------------------------------------------------------------
\* Properties of walk (specification SpecWalk)

\* the object the root path of the walk stands for, NoObj if it is absent
RootObj == MountLookup(objs, wargs.path)

IsPrefix(p, q) == Len(p) <= Len(q) /\ SubSeq(q, 1, Len(p)) = p

\* the full paths of the entries of the triples ys, in the order yielded
RECURSIVE Listed(_)
Listed(ys) ==
    IF ys = <<>> THEN <<>>
    ELSE LET t == ys[Len(ys)]
         IN  Listed(SubSeq(ys, 1, Len(ys) - 1))
             \o [i \in 1..Len(t.directories) |-> t.directories[i].full_filename]
             \o [i \in 1..Len(t.files) |-> t.files[i].full_filename]

SeqRange(s) == {s[i] : i \in 1..Len(s)}
YieldedPaths == [i \in 1..Len(yields) |-> yields[i].path]

FullWalk ==
    /\ wpc = "done"
    /\ wlog.end = "finished"
    /\ wargs.cancelAt = 0
    /\ faults = 0
    /\ RootObj # NoObj

\* C2: with no callback and no listing failure, walk yields one triple for
\* the root and one for each directory below it, and every descendant of
\* the root is listed exactly once; nothing is listed or expanded twice.
C2_WalkVisitsEachOnce ==
    FullWalk =>
        LET desc == Descendants(objs, RootObj)
            dirs == {d \in desc : objs[d].kind \in {"storage", "folder"}}
        IN  /\ Len(yields) = 1 + Cardinality(dirs)
            /\ SeqRange(YieldedPaths) = {wargs.path} \cup {PathOf(objs, d) : d \in dirs}
            /\ Len(Listed(yields)) = Cardinality(desc)
            /\ SeqRange(Listed(yields)) = {PathOf(objs, d) : d \in desc}

\* a full walk of a storage with three entries on two levels
C2_Witness ==
    /\ FullWalk
    /\ Len(yields) >= 3
    /\ Len(Listed(yields)) = 3

Cancelled == wargs.cancelAt # 0 /\ visits >= wargs.cancelAt

\* C3: once the callback has returned false on the N-th child, walk is over:
\* the callback is not called again, the level being listed is discarded,
\* nothing more is yielded, and the entries yielded before are at most N and
\* fewer than the entries of the whole tree.
C3_WalkCancel ==
    Cancelled =>
        /\ wpc = "done"
        /\ wlog.end = "cancelled"
        /\ visits = wargs.cancelAt
        /\ directories = <<>> /\ files = <<>>
        /\ Len(Listed(yields)) <= wargs.cancelAt
        /\ Len(Listed(yields)) < Cardinality(Descendants(objs, RootObj))

\* cancelled on the second level, after the triple of the root was yielded
C3_Witness ==
    /\ Cancelled
    /\ wlog.end = "cancelled"
    /\ Len(yields) >= 1
    /\ Len(Listed(yields)) >= 1

\* C4: when the listing of node X fails and onError returns true, no triple
\* is yielded for X, no child or descendant of X gets a triple later, and the
\* nodes still pending in the queue get their triples.
C4_WalkErrorIsolation ==
    wargs.onError = "true" =>
        /\ \A i \in 1..Len(wlog.failed) : \A j \in 1..Len(yields) :
              ~IsPrefix(wlog.failed[i].path, yields[j].path)
        /\ (wpc = "done" /\ wlog.end = "finished") =>
              \A j \in 1..Len(yields) : \A k \in 1..Len(yields[j].directories) :
                 LET d == yields[j].directories[k].full_filename
                 IN  \/ d \in SeqRange(YieldedPaths)
                     \/ \E i \in 1..Len(wlog.failed) : wlog.failed[i].path = d

\* C4 where the listing can only fail before the first child (gvfs mount)
C4_OnGvfs == backend = "gvfs" => C4_WalkErrorIsolation

\* C5: when the listing of a node fails and no onError was supplied, the
\* failure is raised and the walk is over: nothing is yielded afterwards.
C5_WalkErrorFatal ==
    (wargs.onError = "absent" /\ wlog.failed # <<>>) =>
        /\ wpc = "done"
        /\ wlog.end = "raised"
        /\ Len(yields) = wlog.failed[1].at

\* C5 on the Linux backends
C5_OnLinux == backend # "win" => C5_WalkErrorFatal

\* C6: a walk from a root path that does not resolve (device name, storage
\* or a deeper segment missing) yields nothing, raises nothing and calls no
\* callback.
C6_WalkAbsentRoot ==
    (wpc # "idle" /\ RootObj = NoObj) =>
        /\ wpc = "done"
        /\ wlog.end = "finished"
        /\ yields = <<>>
        /\ visits = 0

\* C6 for root paths that name the device and one of its storages
C6_StorageResolves ==
    PrefixResolves(objs, wargs.path) => C6_WalkAbsentRoot

\* triples come in non-decreasing depth
BreadthFirst ==
    \A i \in 1..Len(yields) : \A j \in 1..Len(yields) :
        i < j => Len(yields[i].path) <= Len(yields[j].path)

\* C7: walk is breadth-first: the triple of a directory comes only after the
\* triple of the parent that listed it, and triples come in non-decreasing
\* depth below the root.
C7_WalkBreadthFirst ==
    /\ BreadthFirst
    /\ \A j \in 2..Len(yields) : \E i \in 1..(j - 1) :
          \E k \in 1..Len(yields[i].directories) :
             yields[i].directories[k].full_filename = yields[j].path

\* C7 for walks in which no listing failed
C7_NoFailure == wlog.failed = <<>> => C7_WalkBreadthFirst

\* ------------------------------------------------------------------------
\* Operations on one content node (specification SpecNode).  The caller
\* takes a node of the device, creates directories and files below it and
\* asks it for children and paths.

\* names of created entries: an ordinary one and the name of a storage
NodeNames == {"a", "S1"}

\* paths below a node: every path of up to two segments, deeper ones
\* repeating their second segment
RelTails == {q \in SeqsOver(NodeNames, MaxRelLen) : \A k \in 3..Len(q) : q[k] = q[2]}

\* (the last one with a trailing separator: "a/")
RelPaths == (RelTails \ {<<>>}) \cup {<<"a", "">>}

\* paths from the device: into storage S1, into a storage that is not there,
\* the bare device name, storage S2, and the name of another device
FullPaths ==
    {<<DevName, "S1">> \o r : r \in RelTails}
    \cup {<<DevName>>, <<DevName, "S2">>, <<OtherDev, "S1">>, <<DevName, "S1", "a", "">>,
          <<DevName, MissingStor>>, <<DevName, MissingStor, "a">>}

Plain(path) == \A k \in 1..Len(path) : path[k] # ""

\* held = get_content_from_device_path(dev, path); the caller keeps the
\* node it had when nothing comes back, and goes on only from nodes of
\* paths without an empty segment
Take(path) ==
    /\ wpc = "idle"
    /\ \E r \in {get_content_from_device_path(backend, objs, path)} :
           /\ held' = IF r.st = "ok" /\ Plain(path) THEN r.node ELSE held
           /\ last' = Op("get_content_from_device_path", path, r, <<>>, objs)
    /\ UNCHANGED <<backend, objs, nextId, prev, walkvars, sessvars>>

\* the orders a backend can list the objects S in
Orders(S) ==
    {q \in [1..Cardinality(S) -> S] : \A i \in DOMAIN q : \A j \in DOMAIN q : i # j => q[i] # q[j]}

\* ret_objs.sort(key=lambda entry: entry.name): stable
RECURSIVE InsertByName(_, _)
InsertByName(n, q) ==
    IF q = <<>> THEN <<n>>
    ELSE IF NameRank(n.name) < NameRank(Head(q).name) THEN <<n>> \o q
    ELSE <<Head(q)>> \o InsertByName(n, Tail(q))

RECURSIVE sort_by_name(_)
sort_by_name(q) ==
    IF q = <<>> THEN <<>>
    ELSE InsertByName(q[Len(q)], sort_by_name(SubSeq(q, 1, Len(q) - 1)))

\* PortableDevice.get_content as a list, the backend listing the storages
\* in the order given: win_access returns the listing as it comes,
\* linux_access sorts it by name
get_content_list(b, o, order) ==
    IF b = "win"
    THEN [i \in 1..Len(order) |-> WinPDC(o, order[i], <<DevName>>)]
    ELSE sort_by_name(
           [i \in 1..Len(order) |->
               IF b = "gvfs"
               THEN GvfsPDC(o, <<DevName, o[order[i]].name>>, 0, 0,
                            WPD_CONTENT_TYPE_STORAGE, TRUE)
               ELSE LibmtpPDC(<<DevName, o[order[i]].name>>, order[i],
                              LIBMTP_FILES_AND_FOLDERS_ROOT, WPD_CONTENT_TYPE_STORAGE, 0)])

\* what a call that returns a list leaves in the record
OpList(op, list, pre) ==
    [op |-> op, path |-> <<>>, res |-> None, created |-> <<>>, pre |-> pre, list |-> list]

\* dev.get_content(), asked before a node is taken
GetContent ==
    /\ wpc = "idle"
    /\ held = NoNode
    /\ \E order \in Orders(Children(objs, DEVICE)) :
          last' = OpList("get_content", get_content_list(backend, objs, order), objs)
    /\ UNCHANGED <<backend, objs, nextId, held, prev, walkvars, sessvars>>

\* The devices attached to the host, in the order the backend reports them:
\* "ready" when the storage listing of the device is not empty, "empty" when
\* it is (the device is still negotiating with the host)
Attachments ==
    UNION {[1..n -> {"ready", "empty"}] : n \in 0..MaxDevices}

\* the positions from i on, in order, of the devices with a storage listing
RECURSIVE ReadyFrom(_, _)
ReadyFrom(attached, i) ==
    IF i > Len(attached) THEN <<>>
    ELSE (IF attached[i] = "ready" THEN <<i>> ELSE <<>>) \o ReadyFrom(attached, i + 1)

\* get_portable_devices: the attached devices a handle is returned for.
\* linux_access keeps a device when len(dev.get_content()) != 0, win_access
\* makes a PortableDevice of every id GetDevices reports.
get_portable_devices(b, attached) ==
    IF b = "win"
    THEN [i \in 1..Len(attached) |-> i]
    ELSE ReadyFrom(attached, 1)

\* devices = get_portable_devices(), the first call of a session
GetPortableDevices ==
    /\ wpc = "idle"
    /\ held = NoNode
    /\ \E attached \in Attachments :
          last' = [op |-> "get_portable_devices", path |-> <<>>, res |-> None,
                   created |-> <<>>, pre |-> objs, attached |-> attached,
                   list |-> get_portable_devices(backend, attached)]
    /\ UNCHANGED <<backend, objs, nextId, held, prev, walkvars, sessvars>>

\* names asked of get_child: those in use and one that differs in case only
ChildNames == NodeNames \cup {"A"}

\* held.get_child(name)
GetChild(name) ==
    /\ wpc = "idle"
    /\ held # NoNode
    /\ last' = Op("get_child", <<name>>, get_child(backend, objs, held, name), <<>>, objs)
    /\ UNCHANGED <<backend, objs, nextId, held, prev, walkvars, sessvars>>

\* held.get_path(path)
GetPath(path) ==
    /\ wpc = "idle"
    /\ held # NoNode
    /\ last' = Op("get_path", path, get_path(backend, objs, held, path), <<>>, objs)
    /\ UNCHANGED <<backend, objs, nextId, held, prev, walkvars, sessvars>>

\* held.create_content(name); the device answers a used name with dup
CreateContent ==
    /\ wpc = "idle"
    /\ held # NoNode
    /\ \E name \in NodeNames, dup \in BOOLEAN :
          \E r \in {create_content_on(backend, objs, nextId, held, name, dup)} :
              /\ r.next <= MaxId + 1
              /\ objs' = r.o
              /\ nextId' = r.next
              /\ last' = Op("create_content", Append(held.full_filename, name),
                            r.res, r.created, objs)
    /\ UNCHANGED <<backend, held, prev, walkvars, sessvars>>

\* names of the files uploaded next to the created directories
FileNames == {"a"}

NextNode ==
    \/ \E path \in FullPaths : Take(path)
    \/ \E path \in RelPaths \cup FullPaths : GetPath(path)
    \/ \E name \in ChildNames : GetChild(name)
    \/ GetContent
    \/ GetPortableDevices
    \/ CreateContent
    \/ \E name \in FileNames : UploadFile(name)

SpecNode == Init /\ [][NextNode]_vars

\* ------------------------------------------------------------------------
\* upload_file and download_file (specification SpecTransfer).  A file is a
\* sequence of bytes; the object of an uploaded file keeps what the device
\* received in the field data.

Bytes == {0, 1}
Contents == UNION {[1..n -> Bytes] : n \in 0..MaxFileLen}
BlockSizes == 1..MaxBlock

\* the blocks a loop of read(blocksize) that stops before the last block
\* when that block is not full would give
RECURSIVE FullBlocks(_, _)
FullBlocks(data, blocksize) ==
    IF Len(data) < blocksize THEN <<>>
    ELSE <<SubSeq(data, 1, blocksize)>>
         \o FullBlocks(SubSeq(data, blocksize + 1, Len(data)), blocksize)

\* the blocks inputstream.read(blocksize) / RemoteRead(blocksize) give until
\* a read comes back empty
RECURSIVE Blocks(_, _)
Blocks(data, blocksize) ==
    IF data = <<>> THEN <<>>
    ELSE LET n == IF Len(data) < blocksize THEN Len(data) ELSE blocksize
         IN  <<SubSeq(data, 1, n)>> \o Blocks(SubSeq(data, n + 1, Len(data)), blocksize)

\* the bytes written block after block
RECURSIVE Written(_)
Written(blocks) ==
    IF blocks = <<>> THEN <<>> ELSE Head(blocks) \o Written(Tail(blocks))

\* what the device holds after upload_file of the local file: the blocks
\* RemoteWrite got on WPD, the whole file copied on the Linux backends
upload_stream(b, local, blocksize) ==
    IF b = "win" THEN Written(Blocks(local, blocksize)) ELSE local

\* what download_file writes to the output file
download_stream(b, stored, blocksize) ==
    IF b = "win" THEN Written(Blocks(stored, blocksize)) ELSE stored

\* the object of an uploaded file; win_access sets WPD_OBJECT_SIZE to the
\* size of the local file, the Linux backends store the file that arrived
AddFile(b, o, nid, pid, name, local, stored) ==
    o @@ (nid :> [parent |-> pid, name |-> name, kind |-> "file",
                  size |-> IF b = "win" THEN Len(local) ELSE Len(stored),
                  data |-> stored])

TransferDirs == {<<DevName, "S1">>, <<DevName, "S2">>}
TransferName == "a"

\* held.upload_file(TransferName, local) into a directory without that name
Upload ==
    /\ wpc = "idle"
    /\ held # NoNode
    /\ nextId <= MaxId
    /\ \E local \in Contents, blocksize \in BlockSizes :
          LET pid == IF backend = "gvfs" THEN MountLookup(objs, held.full_filename)
                     ELSE BackendParent(backend, held)
          IN  /\ CanCreate(objs, pid, TransferName)
              /\ objs' = AddFile(backend, objs, nextId, pid, TransferName, local,
                                 upload_stream(backend, local, blocksize))
              /\ last' = [op |-> "upload_file", path |-> <<TransferName>>, res |-> None,
                          created |-> <<>>, pre |-> objs, local |-> local,
                          blocksize |-> blocksize]
    /\ nextId' = nextId + 1
    /\ UNCHANGED <<backend, held, prev, walkvars, sessvars>>

\* held.get_child(TransferName).download_file(out), right after the upload
Download ==
    /\ wpc = "idle"
    /\ last.op = "upload_file"
    /\ \E blocksize \in BlockSizes :
          \E r \in {get_child(backend, objs, held, TransferName)} :
             /\ r.st = "ok"
             /\ last' = [op |-> "download_file", path |-> <<TransferName>>, res |-> r,
                         created |-> <<>>, pre |-> objs, local |-> last.local,
                         blocksize |-> last.blocksize,
                         out |-> download_stream(backend,
                                                 objs[TargetOf(backend, objs, r.node)].data,
                                                 blocksize)]
    /\ UNCHANGED <<backend, objs, nextId, held, prev, walkvars, sessvars>>

NextTransfer ==
    \/ \E path \in TransferDirs : Take(path)
    \/ Upload
    \/ Download

SpecTransfer == Init /\ [][NextTransfer]_vars

\* ------------------------------------------------------------------------
\* The session: module state, enumeration and close (specification
\* SpecSession).  The module is loaded with _gvfs_found = True (backend
\* "gvfs" on Linux), _libmtp = None and DEVICE_MANAGER = None.

\* what the storage listing of a plugged device gives
Listings == {"ready", "empty", "fails"}

RECURSIVE PlugsOver(_, _)
PlugsOver(E, n) ==
    IF n = 0 THEN {<<>>}
    ELSE LET shorter == PlugsOver(E, n - 1)
         IN  shorter \cup {Append(q, e) : q \in {t \in shorter : Len(t) = n - 1}, e \in E}

\* the devices plugged into the host: on Windows with their names, on Linux
\* with a listing that can also fail
Plugs(b) ==
    IF b = "win"
    THEN PlugsOver([name : {DevName, OtherDev}, listing : {"ready", "empty"}], MaxDevices)
    ELSE PlugsOver([name : {DevName}, listing : Listings], MaxDevices)

InitSession ==
    /\ backend \in {"win", "gvfs"}
    /\ objs \in TreesUpTo(1)
    /\ nextId = Cardinality(DOMAIN objs) + 1
    /\ held = NoNode
    /\ last = NoOp
    /\ prev = NoOp
    /\ WalkIdle
    /\ libmtp = FALSE
    /\ mounted \in (IF backend = "win" THEN {FALSE} ELSE BOOLEAN)
    /\ plugged \in Plugs(backend)
    /\ devices = <<>>
    /\ com = [init |-> 0, uninit |-> 0, manager |-> FALSE]
    /\ kills = <<>>
    /\ cli = NoCli

\* linux_access.get_portable_devices, the loop over the entries: dev =
\* PortableDevice(entry), kept when len(dev.get_content()) != 0.  get_content
\* runs under _gvfs_found (found) and raises on a handle constructed for the
\* other variant; a raise ends the call and the list built so far is lost.
RECURSIVE linux_scan(_, _, _)
linux_scan(found, variant, entries) ==
    IF entries = <<>> THEN [handles |-> <<>>, raised |-> FALSE]
    ELSE LET e == Head(entries)
             outcome == IF (variant = "gvfs") # found THEN "fails" ELSE e.listing
         IN  IF outcome = "fails"
             THEN [handles |-> <<Handle(variant, e.name, variant = "libmtp", FALSE)>>,
                   raised |-> TRUE]
             ELSE LET rest == linux_scan(found, variant, Tail(entries))
                  IN  [handles |-> <<Handle(variant, e.name, variant = "libmtp",
                                            outcome = "ready" /\ ~rest.raised)>>
                                   \o rest.handles,
                       raised |-> rest.raised]

\* linux_access._init_libmtp is called: when _libmtp is None and the mount
\* directory is missing
calls_init_libmtp(lib, mnt) == ~mnt /\ ~lib

\* _gvfs_found after linux_access.get_portable_devices
gvfs_found_after(b, lib, mnt) ==
    IF mnt THEN TRUE
    ELSE IF calls_init_libmtp(lib, mnt) THEN FALSE ELSE b = "gvfs"

\* win_access.get_portable_devices: a handle for every device id
win_scan(entries) == [i \in 1..Len(entries) |-> Handle("win", entries[i].name, FALSE, TRUE)]

\* devices = get_portable_devices()
Enumerate ==
    /\ cli = NoCli
    /\ Len(devices) <= (MaxEnums - 1) * Len(plugged)
    /\ IF backend = "win"
       THEN /\ com' = [init |-> IF com.manager THEN com.init ELSE com.init + 1,
                       uninit |-> com.uninit, manager |-> TRUE]
            /\ devices' = devices \o win_scan(plugged)
            /\ last' = [op |-> "get_portable_devices", path |-> <<>>, res |-> None,
                        created |-> <<>>, pre |-> objs, raised |-> FALSE,
                        first |-> Len(devices) + 1]
            /\ UNCHANGED <<backend, libmtp, kills>>
       ELSE \E r \in {linux_scan(gvfs_found_after(backend, libmtp, mounted),
                                 IF mounted THEN "gvfs" ELSE "libmtp", plugged)} :
               /\ backend' = IF gvfs_found_after(backend, libmtp, mounted)
                             THEN "gvfs" ELSE "libmtp"
               /\ libmtp' = (libmtp \/ ~mounted)
               /\ kills' = IF calls_init_libmtp(libmtp, mounted)
                           THEN Append(kills, "get_portable_devices") ELSE kills
               /\ devices' = devices \o r.handles
               /\ last' = [op |-> "get_portable_devices", path |-> <<>>, res |-> None,
                           created |-> <<>>, pre |-> objs, raised |-> r.raised,
                           first |-> Len(devices) + 1]
               /\ UNCHANGED com
    /\ UNCHANGED <<objs, nextId, held, prev, walkvars, mounted, plugged, cli>>

\* PortableDevice.close on Linux: disconnect when _gvfs_found is False; a
\* handle of the mount has no libmtp connection to disconnect
linux_close(b, h) ==
    IF b = "libmtp" /\ h.variant = "libmtp"
    THEN [h EXCEPT !.connected = FALSE, !.closes = @ + 1]
    ELSE [h EXCEPT !.closes = @ + 1]

\* devices[i].close(), once, by the caller that got the handle
Close ==
    /\ cli = NoCli
    /\ \E i \in 1..Len(devices) :
          /\ devices[i].returned
          /\ devices[i].closes = 0
          /\ IF backend = "win"
             THEN /\ com' = [com EXCEPT !.uninit = @ + 1]
                  /\ devices' = [devices EXCEPT ![i].closes = @ + 1]
             ELSE /\ devices' = [devices EXCEPT ![i] = linux_close(backend, @)]
                  /\ UNCHANGED com
          /\ last' = [op |-> "close", path |-> <<>>, res |-> None, created |-> <<>>,
                      pre |-> objs, handle |-> i]
    /\ UNCHANGED <<backend, objs, nextId, held, prev, walkvars, libmtp, mounted,
                   plugged, kills, cli>>

\* the gvfs daemon starts or stops: the mount directory appears or goes
GvfsChange ==
    /\ cli = NoCli
    /\ backend # "win"
    /\ mounted' = ~mounted
    /\ UNCHANGED <<treevars, walkvars, libmtp, plugged, devices, com, kills, cli>>

\* ------------------------------------------------------------------------
\* nx_mtp_sender: the operations of the command line, each run in a process
\* of its own on win_access.  The path "This PC\<device>\<rest>" names the
\* device and the path rest below it; wellformed is FALSE when it has fewer
\* than three parts or does not start with "This PC"; fault is TRUE when the
\* backend raises while the path is resolved.

CliNames == {DevName, OtherDev}
CliPaths == {<<"S1">>, <<"S1", "a">>, <<"S1", "a", "b">>, <<MissingStor, "a">>}

\* for device in get_portable_devices(): if device_name in device.devicename:
\* the first handle that matches, 0 when none does
FirstMatch(hs, name) ==
    LET m == {i \in 1..Len(hs) : hs[i].name = name}
    IN  IF m = {} THEN 0 ELSE FirstOf(m)

\* what an operation leaves: returned or raised, its value, whether the
\* target was found, the handles it closed (in order), the tree afterwards
CliRes(st, value, found, closed, o, next) ==
    [st |-> st, value |-> value, found |-> found, closed |-> closed, o |-> o, next |-> next]

\* get_content_from_device_path(device, f"{device.devicename}\\{rest}")
cli_resolve(o, rest, fault) ==
    IF fault THEN Raise("IOError")
    ELSE get_content_from_device_path("win", o, <<DevName>> \o rest)

\* get_mtp_devices: every handle is closed in the finally of the loop
get_mtp_devices(o, next, hs, plugs) ==
    LET Ready(e) == e.listing = "ready"
    IN  CliRes("returned", Len(SelectSeq(plugs, Ready)), TRUE,
               [i \in 1..Len(hs) |-> i], o, next)

\* copy_to_mtp_device of a local file named "b"
copy_to_mtp_device(o, next, hs, name, rest, wellformed, fault) ==
    LET k == FirstMatch(hs, name)
    IN  IF ~wellformed \/ k = 0 THEN CliRes("raised", FALSE, FALSE, <<>>, o, next)
        ELSE IF fault \/ rest[1] \notin {o[i].name : i \in Children(o, DEVICE)}
        THEN CliRes("raised", FALSE, FALSE, <<k>>, o, next)
        ELSE LET r == makedirs("win", o, next, <<DevName>> \o SubSeq(rest, 1, Len(rest) - 1),
                               FirstOf(Children(o, DEVICE)))
             IN  IF r.res.st # "ok" \/ ~CanCreate(r.o, r.res.node.entry_id, "b")
                 THEN CliRes("raised", FALSE, TRUE, <<k>>, r.o, r.next)
                 ELSE CliRes("returned", TRUE, TRUE, <<k>>,
                             AddObject(r.o, r.next, r.res.node.entry_id, "b", "file", FileSize),
                             r.next + 1)

\* exists_in_mtp_device
exists_in_mtp_device(o, next, hs, name, rest, wellformed, fault) ==
    LET k == FirstMatch(hs, name)
        r == cli_resolve(o, rest, fault)
    IN  IF ~wellformed \/ k = 0 THEN CliRes("returned", FALSE, FALSE, <<>>, o, next)
        ELSE IF r.st = "err" THEN CliRes("returned", FALSE, FALSE, <<>>, o, next)
        ELSE CliRes("returned", r.st = "ok", r.st = "ok", <<k>>, o, next)

\* finally: device.close() in delete_from_mtp_device and get_mtp_item_size:
\* device is the loop variable, unbound when the loop never ran
\* (UnboundLocalError), the last handle when no handle matched
finally_close(res, hs, k, wellformed) ==
    IF ~wellformed \/ hs = <<>>
    THEN [res EXCEPT !.st = "raised"]
    ELSE [res EXCEPT !.closed = <<IF k = 0 THEN Len(hs) ELSE k>>]

\* delete_from_mtp_device
delete_from_mtp_device(o, next, hs, name, rest, wellformed, fault) ==
    LET k == FirstMatch(hs, name)
        r == cli_resolve(o, rest, fault)
        body == IF ~wellformed \/ k = 0 \/ r.st # "ok"
                THEN CliRes("returned", FALSE, FALSE, <<>>, o, next)
                ELSE LET d == remove("win", o, r.node)
                     IN  CliRes("returned", d.res.st = "ok", TRUE, <<>>, d.o, next)
    IN  finally_close(body, hs, k, wellformed)

RECURSIVE SumSizes(_, _)
SumSizes(o, S) ==
    IF S = {} THEN 0
    ELSE LET i == FirstOf(S)
         IN  (IF o[i].kind = "file" THEN o[i].size ELSE 0) + SumSizes(o, S \ {i})

\* get_mtp_folder_size: the sizes of the files below the node
get_mtp_folder_size(o, node) == SumSizes(o, Descendants(o, node.entry_id))

\* get_mtp_item_size
get_mtp_item_size(o, next, hs, name, rest, wellformed, fault) ==
    LET k == FirstMatch(hs, name)
        r == cli_resolve(o, rest, fault)
        body == IF ~wellformed \/ k = 0 \/ r.st # "ok"
                THEN CliRes("returned", 0, FALSE, <<>>, o, next)
                ELSE IF r.node.content_type = WPD_CONTENT_TYPE_FILE
                THEN CliRes("returned", r.node.size, TRUE, <<>>, o, next)
                ELSE CliRes("returned", get_mtp_folder_size(o, r.node), TRUE, <<>>, o, next)
    IN  finally_close(body, hs, k, wellformed)

\* the handles after the close() calls of the operation
ClosedBy(hs, closed) ==
    [i \in 1..Len(hs) |->
        [hs[i] EXCEPT !.closes = Cardinality({j \in 1..Len(closed) : closed[j] = i})]]

\* the process of one operation: get_portable_devices() is called once the
\* path is accepted (always by get_mtp_devices)
CliRun(op, r, enumerated, name, rest) ==
    /\ cli' = [op |-> op, st |-> r.st, value |-> r.value, found |-> r.found,
               name |-> name, rest |-> rest, enumerated |-> enumerated]
    /\ devices' = IF enumerated THEN ClosedBy(win_scan(plugged), r.closed) ELSE <<>>
    /\ com' = [init |-> IF enumerated THEN 1 ELSE 0, uninit |-> Len(r.closed),
               manager |-> enumerated]
    /\ objs' = r.o
    /\ nextId' = r.next
    /\ UNCHANGED <<backend, held, last, prev, walkvars, libmtp, mounted, plugged, kills>>

CliFresh == backend = "win" /\ cli = NoCli /\ devices = <<>> /\ ~com.manager

CliList ==
    /\ CliFresh
    /\ CliRun("list-devices", get_mtp_devices(objs, nextId, win_scan(plugged), plugged),
              TRUE, "", <<>>)

CliCopy ==
    /\ CliFresh
    /\ \E name \in CliNames, rest \in CliPaths, wellformed \in BOOLEAN, fault \in BOOLEAN :
          CliRun("copy", copy_to_mtp_device(objs, nextId, win_scan(plugged), name, rest,
                                            wellformed, fault), wellformed, name, rest)

CliExists ==
    /\ CliFresh
    /\ \E name \in CliNames, rest \in CliPaths, wellformed \in BOOLEAN, fault \in BOOLEAN :
          CliRun("exists", exists_in_mtp_device(objs, nextId, win_scan(plugged), name, rest,
                                                wellformed, fault), wellformed, name, rest)

CliDelete ==
    /\ CliFresh
    /\ \E name \in CliNames, rest \in CliPaths, wellformed \in BOOLEAN, fault \in BOOLEAN :
          CliRun("delete", delete_from_mtp_device(objs, nextId, win_scan(plugged), name, rest,
                                                  wellformed, fault), wellformed, name, rest)

CliSize ==
    /\ CliFresh
    /\ \E name \in CliNames, rest \in CliPaths, wellformed \in BOOLEAN, fault \in BOOLEAN :
          CliRun("size", get_mtp_item_size(objs, nextId, win_scan(plugged), name, rest,
                                           wellformed, fault), wellformed, name, rest)

NextSession ==
    \/ Enumerate
    \/ Close
    \/ GvfsChange
    \/ CliList
    \/ CliCopy
    \/ CliExists
    \/ CliDelete
    \/ CliSize

SpecSession == InitSession /\ [][NextSession]_vars

\* ------------------------------------------------------------------------
\* Properties of the node operations (specification SpecNode)

\* no node has two children of the same name
NamesUnique(o) ==
    \A i \in DOMAIN o : \A j \in DOMAIN o :
        (i # j /\ o[i].parent = o[j].parent) => o[i].name # o[j].name

\* the node create_content was called on had a child of that name
NameWasThere ==
    /\ last.op = "create_content"
    /\ get_child(backend, last.pre, held, last.path[Len(last.path)]).st = "ok"

\* C11: create_content(name) on a node that already has a child named name
\* fails with an error and leaves the tree unchanged, and so no node ever
\* has two children of the same name.
C11_CreateExistingFails ==
    /\ NameWasThere => (last.res.st = "err" /\ objs = last.pre)
    /\ NamesUnique(objs)

\* C11 on the gvfs mount, where create_content looks before it creates
C11_OnGvfs == backend = "gvfs" => C11_CreateExistingFails

\* the object the node n stands for, NoObj when it is not on the device
ObjOf(o, n) == MountLookup(o, n.full_filename)

\* the object a path leads to: from the device when its first segment is the
\* device name, else from the node n, segment by segment; NoObj when some
\* segment does not exist
Target(o, n, path) ==
    IF path[1] = DevName THEN MountLookup(o, path)
    ELSE IF ObjOf(o, n) = NoObj THEN NoObj ELSE Lookup(o, ObjOf(o, n), path)

Resolving == last.op \in {"get_path", "get_content_from_device_path"}

\* C12: path resolution reports absence as a value.  When some segment of
\* the path (the storage included) does not exist, get_path and
\* get_content_from_device_path return absent and raise nothing, and a node
\* they return is the node of the whole path, never of a proper prefix.
C12_AbsenceIsAValue ==
    Resolving =>
        LET t == Target(last.pre, held, last.path)
        IN  /\ t = NoObj => last.res.st = "none"
            /\ last.res.st = "ok" =>
                  /\ t # NoObj
                  /\ ObjOf(last.pre, last.res.node) = t

\* C12 for paths from the device into a storage that exists
C12_StorageThere ==
    (Resolving /\ PrefixResolves(last.pre, last.path)) => C12_AbsenceIsAValue

\* C13: for a path whose first segment is not the device name, get_path
\* returns what get_child gives segment by segment from the node, absent as
\* soon as a segment is absent, also when the first segment is the name of
\* the node itself.
C13_GetPathIsChildChain ==
    (last.op = "get_path" /\ last.path[1] # DevName) =>
        last.res = get_child_chain(backend, last.pre, held, last.path)

\* C13 for paths that do not start with the name of the node
C13_OtherFirstSegment ==
    (last.op = "get_path" /\ last.path[1] # held.name) => C13_GetPathIsChildChain

\* two results are both absent or nodes equal in fullPath, kind and size
SameNode(r1, r2) ==
    \/ r1.st = "none" /\ r2.st = "none"
    \/ /\ r1.st = "ok" /\ r2.st = "ok"
       /\ r1.node.full_filename = r2.node.full_filename
       /\ r1.node.content_type = r2.node.content_type
       /\ r1.node.size = r2.node.size

\* C14: for a storage node S and a relative path R, S.get_path(R) and
\* S.get_path(S.fullPath/R) agree, and a path from the device gives the same
\* result on whatever storage node get_path is called.
C14_QualifiedAndRelativeAgree ==
    (last.op = "get_path" /\ Len(held.full_filename) = 2) =>
        IF last.path[1] # DevName
        THEN SameNode(last.res,
                      get_path(backend, last.pre, held, held.full_filename \o last.path))
        ELSE \A n \in get_content(backend, last.pre) :
                 get_path(backend, last.pre, n, last.path) = last.res

\* C14 for relative paths that do not start with the name of the storage
C14_OtherFirstSegment ==
    (last.op = "get_path" /\ last.path[1] # held.name) => C14_QualifiedAndRelativeAgree

\* positions in the listing of the held node of the entries named as asked
MatchesInListing ==
    LET ch == get_children(backend, last.pre, held)
    IN  {i \in 1..Len(ch) : ch[i].name = last.path[1]}

C16_GetContentSorted ==
    last.op = "get_content" =>
        /\ {last.list[i].name : i \in 1..Len(last.list)}
              = {last.pre[i].name : i \in Children(last.pre, DEVICE)}
        /\ Len(last.list) = Cardinality(Children(last.pre, DEVICE))
        /\ \A i \in 1..Len(last.list) : \A j \in 1..Len(last.list) :
              i < j => NameRank(last.list[i].name) < NameRank(last.list[j].name)

\* C16 on the Linux backends, which sort the list
C16_OnLinux == backend # "win" => C16_GetContentSorted

\* C17: get_portable_devices() returns a handle for an attached device iff
\* the storage listing of the device is not empty: a device with an empty
\* listing is left out, every ready device is returned exactly once, and
\* with no ready device the result is the empty list.
C17_OnlyReadyDevices ==
    last.op = "get_portable_devices" =>
        /\ \A i \in 1..Len(last.attached) :
              last.attached[i] = "ready" <=> (\E k \in 1..Len(last.list) : last.list[k] = i)
        /\ \A k \in 1..Len(last.list) : \A l \in 1..Len(last.list) :
              k # l => last.list[k] # last.list[l]

\* C17 on the Linux backends, which look at the storage listing
C17_OnLinux == backend # "win" => C17_OnlyReadyDevices

\* the node an operation of SpecNode gave back
Returned ==
    /\ last.op \in {"get_content_from_device_path", "get_path", "get_child", "create_content"}
    /\ last.res.st = "ok"

\* the backend object a returned node stands for
Denoted(b, o, n) ==
    IF b = "gvfs" THEN MountLookup(o, n.full_filename) ELSE BackendParent(b, n)

\* C19: every node that get_content_from_device_path, get_path, get_child
\* or create_content returns has fullPath == fullPath of its parent +
\* separator + name, the parent of a storage being the device root whose
\* path is the name of the device.
C19_FullPathIsParentPlusName ==
    Returned =>
        LET n == last.res.node
            t == Denoted(backend, objs, n)
        IN  /\ t \in DOMAIN objs
            /\ n.full_filename = Append(PathOf(objs, objs[t].parent), n.name)

\* paths without an empty segment give nodes that satisfy it
C19_PlainPaths ==
    (Returned /\ Plain(last.path)) =>
        LET n == last.res.node
            t == Denoted(backend, objs, n)
        IN  /\ t \in DOMAIN objs
            /\ n.full_filename = Append(PathOf(objs, objs[t].parent), n.name)

\* the case C19 fails in: a path with a trailing separator resolved on the mount
C19_TrailingSeparator ==
    ~(Returned /\ backend = "gvfs" /\ last.res.node.name = "")

\* C20: every node whose kind is not File has size == -1.
C20_NonFileSizeIsMinusOne ==
    Returned =>
        (last.res.node.content_type # WPD_CONTENT_TYPE_FILE => last.res.node.size = -1)

\* it holds on the Linux backends
C20_OnLinux ==
    (Returned /\ backend # "win") =>
        (last.res.node.content_type # WPD_CONTENT_TYPE_FILE => last.res.node.size = -1)

\* ------------------------------------------------------------------------
\* Properties of the transfers (specification SpecTransfer)

\* C18: transfer round trip.  For every local file, of any length, empty
\* and not a multiple of the advised block size included, upload_file
\* followed by get_child(name).download_file(out) leaves out byte-identical
\* to the local file, and the size of the uploaded node is its length.
C18_TransferRoundTrip ==
    last.op = "download_file" =>
        /\ last.out = last.local
        /\ last.res.node.content_type = WPD_CONTENT_TYPE_FILE
        /\ last.res.node.size = Len(last.local)

\* a file over WPD whose length is not a multiple of the block size
C18_Witness ==
    /\ last.op = "download_file"
    /\ backend = "win"
    /\ Len(last.local) = MaxFileLen
    /\ Len(last.local) % last.blocksize # 0
    /\ last.out = last.local

\* ------------------------------------------------------------------------
\* Nodes as values

\* C21: a node is immutable after construction: no operation, walk and
\* remove() on the node included, changes its kind, name or fullPath.  Here
\* for the node walk starts from: its fullPath is still the string it was
\* constructed with.
C21_NodeImmutable ==
    wpc # "idle" => wlog.root.now = wlog.root.built

\* linux_access never assigns to a node
C21_OnLinux ==
    (wpc # "idle" /\ backend # "win") => wlog.root.now = wlog.root.built

\* remove() leaves the node value as it was
C21_RemoveKeepsNode ==
    [][(last'.op = "remove" /\ last' # last) => held' = held]_vars

\* ------------------------------------------------------------------------
\* Properties of the session (specification SpecSession)

\* the handles the caller got and has not closed
OpenHandles == {i \in 1..Len(devices) : devices[i].returned /\ devices[i].closes = 0}

\* C22: the backend variant (mount or libmtp) is selected once and never
\* changed while a device obtained under it is still open: every open
\* handle was constructed under the variant its operations run with.
C22_VariantFixedWhileOpen ==
    backend # "win" => \A i \in OpenHandles : devices[i].variant = backend

\* as long as the mount directory is there iff the variant is the mount,
\* the variant stays
C22_WhileTheMountStays ==
    [][(backend # "win" /\ mounted = (backend = "gvfs") /\ mounted' = mounted
        /\ OpenHandles # {} /\ \A i \in OpenHandles : devices[i].variant = backend)
       => backend' = backend]_vars

\* C23: the step that kills the processes holding the USB bus runs only
\* through an explicit initializer call, never from get_portable_devices(),
\* the construction of a PortableDevice or the resolution of a path.
C23_KillOnlyExplicit ==
    \A k \in 1..Len(kills) : kills[k] = "initializer"

\* on the mount nothing is killed
C23_OnTheMount ==
    (backend = "gvfs" /\ ~libmtp) => kills = <<>>

\* C24: the COM subsystem is initialized whenever it is used: CoUninitialize
\* is never called more often than CoInitialize, and while a device is open
\* or an enumeration has just run COM is initialized.
C24_ComInitializedInUse ==
    backend = "win" =>
        /\ com.uninit <= com.init
        /\ (OpenHandles # {} \/ last.op = "get_portable_devices") => com.uninit < com.init

\* with at most one device plugged and one enumeration it holds
C24_OneDeviceOnce ==
    (backend = "win" /\ Len(devices) <= 1) => com.uninit <= com.init

\* C29: no connection is leaked by get_portable_devices() on libmtp: every
\* device it connected to is returned to the caller or disconnected.
C29_NoLeakedConnection ==
    \A i \in 1..Len(devices) :
        (devices[i].variant = "libmtp" /\ devices[i].connected) => devices[i].returned

\* devices that are ready and listed without a failure are all returned
C29_AllReady ==
    (\A k \in 1..Len(plugged) : plugged[k].listing = "ready") =>
        \A i \in 1..Len(devices) :
            (devices[i].variant = "libmtp" /\ devices[i].connected /\ backend = "libmtp")
                => devices[i].returned

\* ------------------------------------------------------------------------
\* Properties of the command line (specification SpecSession)

\* C25: delete_from_mtp_device returns False and get_mtp_item_size returns 0
\* whenever the target is not found, also when no device is attached or no
\* attached device matches the name; they never raise.
C25_AbsenceIsAValue ==
    /\ cli.op = "delete" => cli.st = "returned" /\ (~cli.found => cli.value = FALSE)
    /\ cli.op = "size" => cli.st = "returned" /\ (~cli.found => cli.value = 0)

\* with a device attached and a well-formed path they return
C25_WithDevice ==
    (cli.op \in {"delete", "size"} /\ cli.enumerated /\ plugged # <<>>) =>
        cli.st = "returned"

\* C26: in every operation of the command line each handle that
\* get_portable_devices() returned is closed exactly once before the
\* operation returns, whether or not the device matched.
C26_EveryHandleClosedOnce ==
    cli.op # "none" => \A i \in 1..Len(devices) : devices[i].closes = 1

\* get_mtp_devices closes every handle
C26_ListDevices ==
    cli.op = "list-devices" => \A i \in 1..Len(devices) : devices[i].closes = 1

\* ------------------------------------------------------------------------
\* Properties of the walk as a generator

\* C27: walk never has two child listings in progress: the listing of the
\* dequeued node is drained before the triple is yielded, and the listing
\* of the next node begins only after that, or after the listing raised.
C27_OneListingAtATime ==
    /\ wpc = "yielded" => pending = {}
    /\ wpc = "enum" => pending \subseteq Listing(backend, objs, cont)

\* the triple of a second node is yielded after its listing of two children
C27_Witness ==
    /\ wpc = "yielded"
    /\ Len(yields) >= 2
    /\ Len(directories) + Len(files) >= 2

\* C28: on a finite tree, with callbacks that always return true or are
\* absent, walk terminates: the queue empties and the generator finishes.
C28_WalkTerminates ==
    (wpc # "idle" /\ wargs.cancelAt = 0) ~> (wpc = "done")

\* a walk that finished after it yielded three triples
C28_Witness ==
    /\ wpc = "done"
    /\ wargs.cancelAt = 0
    /\ wlog.end = "finished"
    /\ Len(yields) >= 3

C30_OnWin ==
    [][(backend = "win" /\ wpc = "yielded" /\ wpc' = "yielded" /\ yields' # yields)
       => directories' = directories]_vars

====
